---- MODULE Spec2Model ----
(***************************************************************************)
(* Model of dma_memcpy.c: a non-blocking, interrupt-driven memory copy on  *)
(* top of the uDMA controller.  The program state is the file's static     *)
(* variables; the operations are dma_memcpy, init_dma_memcpy and the two   *)
(* interrupt handlers uDMAIntHandler and uDMAErrorHandler.  The uDMA       *)
(* controller is modelled by what the driver calls do to it: the channels  *)
(* that were configured, the chunk programmed and requested on each        *)
(* channel, and the error status register.                                 *)
(* Lengths and addresses are counted in 32-bit words.                      *)
(***************************************************************************)
EXTENDS Integers, Naturals, Sequences, FiniteSets, TLC

\* ------------------------------------------------------------ constants
MAX_XFER_LEN == 1024
NULL == 0
UDMA_MODE_STOP == 0
UDMA_MODE_AUTO == 2

\* ------------------------------------------------------------ bounds
\* successful dma_memcpy calls in one behaviour
MaxSessions == 2
\* largest value udma_xfer_succ_cnt takes
MaxCnt == 3
\* largest value udma_xfer_fail_cnt and udma_error_cnt take
MaxFaults == 1
\* successful dma_memcpy calls in one behaviour of LiveSpec
MaxLiveSessions == 1

\* ------------------------------------------------------------ inputs
Chans == {1, 2}
Lens == {0, 1, 1024, 1025, 2500}
\* the caller's buffers: each channel's client copies between its own pair
Bufs == [c \in Chans |-> [dst |-> 40000 * c, src |-> 40000 * c - 20000]]
Callbacks == {NULL, 11}
Modes == {UDMA_MODE_STOP, UDMA_MODE_AUTO}

\* no transfer programmed: ev.arm when the step armed nothing
NoChunk == [len |-> 0, src |-> 0, dst |-> 0]
\* hw_chunk[c] when no chunk is in flight on channel c
Idle == 0
NoCall == 99

\* ev.code when the step called through a NULL udma_callback_ptr
NullCall == 98
\* irq when no handler is between two statements; `hi` names the handler
\* with the higher interrupt priority ("none": handlers are not preempted)
NoIrq == [h |-> "none", pc |-> "none", in |-> 0, fn |-> NULL, by |-> 0,
          own |-> FALSE, hi |-> "none"]

VARIABLES
  udma_error_cnt, udma_xfer_fail_cnt, udma_xfer_succ_cnt,
  udma_xfer_len, udma_channel_lock, udma_is_initialized, udma_channel,
  udma_xfer_src, udma_xfer_dst, udma_callback_ptr,
  hw_configured,   \* channels whose attributes/control were configured
  hw_chunk,        \* per channel: Idle, or the session whose chunk is in flight
  cb_owner,        \* history: session whose dma_memcpy stored udma_callback_ptr
  nsess,           \* history: number of successful dma_memcpy calls
  hist,            \* history: per session, its arguments and what happened to it
  ev,              \* history: the step just taken
  exact,           \* TRUE: the counters are exact and a handler that would
                   \* pass a bound is not taken; FALSE: they wrap at the bound
  irq              \* the interrupt handler that is between two of its
                   \* statements, if any, and what it holds in locals

prog == <<udma_error_cnt, udma_xfer_fail_cnt, udma_xfer_succ_cnt,
          udma_xfer_len, udma_channel_lock, udma_is_initialized, udma_channel,
          udma_xfer_src, udma_xfer_dst, udma_callback_ptr>>
hw == <<hw_configured, hw_chunk>>
vars == <<prog, hw, cb_owner, nsess, hist, ev, exact, irq>>

\* ------------------------------------------------------------ helpers
\* uint32_t values are kept as their low 32 bits read as two's complement:
\* a value v >= 2^31 is held as v - 2^32, so a subtraction that wraps
\* below zero shows as a negative number.
Sub32(a, b) == a - b

\* unsigned a > b on that representation
Gt32(a, b) == IF (a < 0) = (b < 0) THEN a > b ELSE a < 0

\* faulty variant: the chunk is MAX_XFER_LEN words whatever remains
ChunkLen_Fixed(n) == MAX_XFER_LEN

\* len = (udma_xfer_len > MAX_XFER_LEN) ? MAX_XFER_LEN : udma_xfer_len
ChunkLen(n) == IF Gt32(n, MAX_XFER_LEN) THEN MAX_XFER_LEN ELSE n

\* x++ on a diagnostic counter: exact below the bound cap; at the bound the
\* step is not taken when the counters are exact, and otherwise the counter
\* wraps to 0 as the uint32_t does at 2^32
Room(x, cap) == ~exact \/ x < cap
Inc(x, cap) == IF x < cap THEN x + 1 ELSE 0

\* the history's count of arm events stops at the bound
Tally(n, cap) == IF n < cap THEN n + 1 ELSE n

\* faulty variant: the cursor is not advanced
PtrAdd_Stuck(p, n) == p

\* pointer + len on uint32_t*
PtrAdd(p, n) == p + n

\* faulty variant: the success callback is due whatever remains to be armed
SuccessCallbackDue_AnyLen(cb, remaining) == cb # NULL

\* if (udma_callback_ptr && (udma_xfer_len==0))
SuccessCallbackDue(cb, remaining) == cb # NULL /\ remaining = 0

\* ROM_uDMAChannelTransferSet + ROM_uDMAChannelEnable + ROM_uDMAChannelRequest
Arm(chunks, c, s) == [chunks EXCEPT ![c] = s]

\* the step record: the operation, its return value, the code the callback
\* was invoked with (NoCall if none) and the session that callback belongs
\* to, the chunk armed and its channel (NoChunk, 0 if none), the step's
\* input (the channel mode or error status a handler read from the hardware,
\* the channel given to init_dma_memcpy), and whether the session was active
\* and the lock taken when the step began; `cleared` tells whether the step
\* called ROM_uDMAErrorStatusClear, `configured` whether it wrote a channel's
\* attributes and control word
Ev(op, ret, code, owner, arm, armch, input, wasActive, wasLock) ==
  [op |-> op, ret |-> ret, code |-> code, owner |-> owner, arm |-> arm,
   armch |-> armch, input |-> input, wasActive |-> wasActive,
   wasLock |-> wasLock, cleared |-> FALSE, configured |-> FALSE]

\* ROM_uDMAErrorStatusClear is called in the step
Clears(e) == [e EXCEPT !.cleared = TRUE]

\* ROM_uDMAChannelAttributeDisable + ROM_uDMAChannelControlSet are called in
\* the step
Configures(e) == [e EXCEPT !.configured = TRUE]

\* faulty variant: every accepted dma_memcpy configures its channel
NeedsInit_Always(flag) == TRUE

\* if (!udma_is_initialized)
NeedsInit(flag) == flag = 0

Cur == hist[nsess]
CurActive == nsess > 0 /\ hist[nsess].active

\* history: the stored callback is invoked with `code`
Invoked(h, code) ==
  IF udma_callback_ptr # NULL
    THEN [h EXCEPT ![cb_owner].ncb = @ + 1, ![cb_owner].code = code]
    ELSE h

\* history: the current session stops being undisturbed / active
Mark(h, disturbed, terminal) ==
  IF nsess = 0 THEN h
  ELSE [h EXCEPT ![nsess].clean = @ /\ ~disturbed,
                 ![nsess].active = @ /\ ~terminal]

\* history: a controller error is handled while the current session's
\* callback is stored and words remain to be armed
Errored(h) ==
  IF nsess > 0 /\ cb_owner = nsess /\ udma_xfer_len # 0
    THEN [h EXCEPT ![nsess].errored = TRUE]
    ELSE h

\* history: what is kept of a session once the next one has started
Archive(h) ==
  IF nsess = 0 THEN h
  ELSE [h EXCEPT ![nsess] = [@ EXCEPT !.dst = 0, !.src = 0, !.chan = 0,
                                      !.clean = FALSE, !.active = FALSE,
                                      !.errored = FALSE]]

\* ------------------------------------------------------------ Init
Reset ==
  /\ udma_error_cnt = 0
  /\ udma_xfer_fail_cnt = 0
  /\ udma_xfer_succ_cnt = 0
  /\ udma_xfer_len = 0
  /\ udma_channel_lock = 0
  /\ udma_is_initialized = 0
  /\ udma_channel = NULL
  /\ udma_xfer_src = 0
  /\ udma_xfer_dst = 0
  /\ udma_callback_ptr = NULL
  /\ hw_configured = {}
  /\ hw_chunk = [c \in Chans |-> Idle]
  /\ cb_owner = 0
  /\ nsess = 0
  /\ hist = << >>
  /\ ev = Ev("none", 0, NoCall, 0, NoChunk, 0, 0, FALSE, 0)

Init == Reset /\ exact = TRUE /\ irq = NoIrq

\* ------------------------------------------------------------ init_dma_memcpy
\* faulty variant: configuring a configured channel undoes its configuration
init_dma_memcpy_Toggles(chan) ==
  /\ hw_configured' = IF chan \in hw_configured
                        THEN hw_configured \ {chan}
                        ELSE hw_configured \cup {chan}
  /\ udma_is_initialized' = 1
  /\ ev' = Configures(Ev("init_dma_memcpy", 0, NoCall, 0, NoChunk, 0, chan,
                         CurActive, udma_channel_lock))
  /\ UNCHANGED <<udma_error_cnt, udma_xfer_fail_cnt, udma_xfer_succ_cnt,
                 udma_xfer_len, udma_channel_lock, udma_channel,
                 udma_xfer_src, udma_xfer_dst, udma_callback_ptr,
                 hw_chunk, cb_owner, nsess, hist, exact, irq>>

init_dma_memcpy(chan) ==
  /\ hw_configured' = hw_configured \cup {chan}
  /\ udma_is_initialized' = 1
  /\ ev' = Configures(Ev("init_dma_memcpy", 0, NoCall, 0, NoChunk, 0, chan,
                         CurActive, udma_channel_lock))
  /\ UNCHANGED <<udma_error_cnt, udma_xfer_fail_cnt, udma_xfer_succ_cnt,
                 udma_xfer_len, udma_channel_lock, udma_channel,
                 udma_xfer_src, udma_xfer_dst, udma_callback_ptr,
                 hw_chunk, cb_owner, nsess, hist, exact, irq>>

\* ------------------------------------------------------------ dma_memcpy
\* the compare-and-swap found the lock taken
dma_memcpy_busy(dst, src, len, chan, cb) ==
  /\ ev' = Ev("dma_memcpy", 1, NoCall, 0, NoChunk, 0, 0, CurActive,
              udma_channel_lock)
  /\ hist' = Mark(hist, TRUE, FALSE)
  /\ UNCHANGED <<prog, hw, cb_owner, nsess, exact, irq>>

\* the compare-and-swap took the lock
dma_memcpy_start(dst, src, len, chan, cb) ==
  LET first == ChunkLen(len)
      chunk == [len |-> first, src |-> src, dst |-> dst]
      rec == [dst |-> dst, src |-> src, len |-> len, chan |-> chan, cb |-> cb,
              narms |-> 1, words |-> first, ncb |-> 0, code |-> NoCall,
              clean |-> TRUE, active |-> TRUE, errored |-> FALSE]
  IN
  /\ nsess < (IF exact THEN MaxSessions ELSE MaxLiveSessions)
  /\ udma_channel_lock' = 1
  /\ udma_is_initialized' = 1
  /\ hw_configured' = IF NeedsInit(udma_is_initialized)
                        THEN hw_configured \cup {chan} ELSE hw_configured
  /\ udma_channel' = chan
  /\ udma_callback_ptr' = IF cb # NULL THEN cb ELSE udma_callback_ptr
  /\ cb_owner' = IF cb # NULL THEN nsess + 1 ELSE cb_owner
  /\ udma_xfer_len' = Sub32(len, first)
  /\ hw_chunk' = Arm(hw_chunk, chan, nsess + 1)
  /\ udma_xfer_src' = PtrAdd(src, first)
  /\ udma_xfer_dst' = PtrAdd(dst, first)
  /\ nsess' = nsess + 1
  /\ hist' = Append(Archive(hist), rec)
  /\ ev' = LET e == Ev("dma_memcpy", 0, NoCall, 0, chunk, chan, 0, CurActive,
                       udma_channel_lock)
           IN IF NeedsInit(udma_is_initialized) THEN Configures(e) ELSE e
  /\ UNCHANGED <<udma_error_cnt, udma_xfer_fail_cnt, udma_xfer_succ_cnt,
                 exact, irq>>

\* faulty variant: the lock is not tested
dma_memcpy_Unlocked(dst, src, len, chan, cb) ==
  dma_memcpy_start(dst, src, len, chan, cb)

\* faulty variant: a call with nothing to copy is refused
dma_memcpy_RejectsEmpty(dst, src, len, chan, cb) ==
  IF udma_channel_lock # 0 \/ len = 0
    THEN dma_memcpy_busy(dst, src, len, chan, cb)
    ELSE dma_memcpy_start(dst, src, len, chan, cb)

dma_memcpy(dst, src, len, chan, cb) ==
  IF udma_channel_lock # 0
    THEN dma_memcpy_busy(dst, src, len, chan, cb)
    ELSE dma_memcpy_start(dst, src, len, chan, cb)

\* ------------------------------------------------------------ uDMAIntHandler
\* if (ui32Mode == UDMA_MODE_STOP), callback branch
IntSuccess(own) ==
  /\ udma_callback_ptr' = NULL
  /\ cb_owner' = 0
  /\ hist' = Mark(Invoked(hist, 0), ~own, TRUE)
  /\ ev' = Ev("uDMAIntHandler", 0, 0, cb_owner, NoChunk, 0, UDMA_MODE_STOP,
              CurActive, udma_channel_lock)
  /\ UNCHANGED <<udma_xfer_len, udma_xfer_src, udma_xfer_dst>>

\* if (ui32Mode == UDMA_MODE_STOP), else branch: program the next chunk
IntRearm(done, own) ==
  LET len == ChunkLen(udma_xfer_len)
      chunk == [len |-> len, src |-> udma_xfer_src, dst |-> udma_xfer_dst]
  IN
  /\ udma_xfer_len' = Sub32(udma_xfer_len, len)
  /\ hw_chunk' = Arm(done, udma_channel, nsess)
  /\ udma_xfer_src' = PtrAdd(udma_xfer_src, len)
  /\ udma_xfer_dst' = PtrAdd(udma_xfer_dst, len)
  /\ hist' = [Mark(hist, ~own, FALSE) EXCEPT ![nsess].narms =
                                                Tally(@, MaxCnt + 1),
                                              ![nsess].words = @ + len]
  /\ ev' = Ev("uDMAIntHandler", 0, NoCall, 0, chunk, udma_channel,
              UDMA_MODE_STOP, CurActive, udma_channel_lock)
  /\ UNCHANGED <<udma_callback_ptr, cb_owner>>

\* faulty variant: the failure branch leaves the callback stored
IntFail_KeepsCb(mode) ==
  /\ Room(udma_xfer_fail_cnt, MaxFaults)
  /\ udma_xfer_fail_cnt' = Inc(udma_xfer_fail_cnt, MaxFaults)
  /\ hist' = Mark(Invoked(hist, 1), TRUE, TRUE)
  /\ ev' = Ev("uDMAIntHandler", 0,
              IF udma_callback_ptr # NULL THEN 1 ELSE NoCall, cb_owner,
              NoChunk, 0, mode, CurActive, udma_channel_lock)
  /\ UNCHANGED <<udma_xfer_succ_cnt, udma_xfer_len, udma_xfer_src,
                 udma_xfer_dst, udma_callback_ptr, cb_owner>>

\* faulty variant: the failure branch counts the transfer as a success
IntFail_CountsSuccess(mode) ==
  /\ Room(udma_xfer_succ_cnt, MaxCnt)
  /\ udma_xfer_succ_cnt' = Inc(udma_xfer_succ_cnt, MaxCnt)
  /\ udma_callback_ptr' = NULL
  /\ cb_owner' = 0
  /\ hist' = Mark(Invoked(hist, 1), TRUE, TRUE)
  /\ ev' = Ev("uDMAIntHandler", 0,
              IF udma_callback_ptr # NULL THEN 1 ELSE NoCall, cb_owner,
              NoChunk, 0, mode, CurActive, udma_channel_lock)
  /\ UNCHANGED <<udma_xfer_fail_cnt, udma_xfer_len, udma_xfer_src,
                 udma_xfer_dst>>

\* else branch of the mode test: the transfer failed
IntFail(mode) ==
  /\ Room(udma_xfer_fail_cnt, MaxFaults)
  /\ udma_xfer_fail_cnt' = Inc(udma_xfer_fail_cnt, MaxFaults)
  /\ udma_callback_ptr' = NULL
  /\ cb_owner' = 0
  /\ hist' = Mark(Invoked(hist, 1), TRUE, TRUE)
  /\ ev' = Ev("uDMAIntHandler", 0,
              IF udma_callback_ptr # NULL THEN 1 ELSE NoCall, cb_owner,
              NoChunk, 0, mode, CurActive, udma_channel_lock)
  /\ UNCHANGED <<udma_xfer_succ_cnt, udma_xfer_len, udma_xfer_src,
                 udma_xfer_dst>>

\* faulty variant: the lock is kept when a continuation chunk was armed
uDMAIntHandler_HoldsLock(c, mode) ==
  LET done == [hw_chunk EXCEPT ![c] = Idle]
      own == hw_chunk[c] = nsess
      due == SuccessCallbackDue(udma_callback_ptr, udma_xfer_len)
  IN
  /\ hw_chunk[c] # Idle
  /\ IF mode = UDMA_MODE_STOP
       THEN /\ Room(udma_xfer_succ_cnt, MaxCnt)
            /\ udma_xfer_succ_cnt' = Inc(udma_xfer_succ_cnt, MaxCnt)
            /\ UNCHANGED udma_xfer_fail_cnt
            /\ IF due
                 THEN IntSuccess(own) /\ hw_chunk' = done
                 ELSE IntRearm(done, own)
       ELSE IntFail(mode) /\ hw_chunk' = done
  /\ udma_channel_lock' = IF mode = UDMA_MODE_STOP /\ ~due
                            THEN udma_channel_lock ELSE 0
  /\ UNCHANGED <<udma_error_cnt, udma_is_initialized, udma_channel,
                 hw_configured, nsess, exact, irq>>

\* the chunk on channel c stopped; the handler reads `mode` for udma_channel
uDMAIntHandler(c, mode) ==
  LET done == [hw_chunk EXCEPT ![c] = Idle]
      own == hw_chunk[c] = nsess
  IN
  /\ hw_chunk[c] # Idle
  /\ IF mode = UDMA_MODE_STOP
       THEN /\ Room(udma_xfer_succ_cnt, MaxCnt)
            /\ udma_xfer_succ_cnt' = Inc(udma_xfer_succ_cnt, MaxCnt)
            /\ UNCHANGED udma_xfer_fail_cnt
            /\ IF SuccessCallbackDue(udma_callback_ptr, udma_xfer_len)
                 THEN IntSuccess(own) /\ hw_chunk' = done
                 ELSE IntRearm(done, own)
       ELSE IntFail(mode) /\ hw_chunk' = done
  /\ udma_channel_lock' = 0
  /\ UNCHANGED <<udma_error_cnt, udma_is_initialized, udma_channel,
                 hw_configured, nsess, exact, irq>>

\* ------------------------------------------------------------ uDMAErrorHandler
\* faulty variant: a handled error is not counted
ErrorPending_NoCount(status) ==
  /\ udma_callback_ptr' = NULL
  /\ cb_owner' = 0
  /\ hist' = Errored(Mark(Invoked(hist, 2), TRUE, TRUE))
  /\ ev' = Clears(Ev("uDMAErrorHandler", 0,
                     IF udma_callback_ptr # NULL THEN 2 ELSE NoCall, cb_owner,
                     NoChunk, 0, status, CurActive, udma_channel_lock))
  /\ UNCHANGED udma_error_cnt

\* if(ui32Status) { ... }
ErrorPending(status) ==
  /\ Room(udma_error_cnt, MaxFaults)
  /\ udma_error_cnt' = Inc(udma_error_cnt, MaxFaults)
  /\ udma_callback_ptr' = NULL
  /\ cb_owner' = 0
  /\ hist' = Errored(Mark(Invoked(hist, 2), TRUE, TRUE))
  /\ ev' = Clears(Ev("uDMAErrorHandler", 0,
                     IF udma_callback_ptr # NULL THEN 2 ELSE NoCall, cb_owner,
                     NoChunk, 0, status, CurActive, udma_channel_lock))

\* faulty variant: the callback is invoked although no error is pending
ErrorNotPending_CallsBack(status) ==
  /\ udma_callback_ptr' = NULL
  /\ cb_owner' = 0
  /\ hist' = Mark(Invoked(hist, 2), TRUE, TRUE)
  /\ ev' = Ev("uDMAErrorHandler", 0,
              IF udma_callback_ptr # NULL THEN 2 ELSE NoCall, cb_owner,
              NoChunk, 0, status, CurActive, udma_channel_lock)
  /\ UNCHANGED udma_error_cnt

\* if(ui32Status) is false
ErrorNotPending(status) ==
  /\ hist' = Mark(hist, TRUE, FALSE)
  /\ ev' = Ev("uDMAErrorHandler", 0, NoCall, 0, NoChunk, 0, status,
              CurActive, udma_channel_lock)
  /\ UNCHANGED <<udma_error_cnt, udma_callback_ptr, cb_owner>>

\* `status` is what ROM_uDMAErrorStatusGet returns
uDMAErrorHandler(status) ==
  /\ IF status # 0 THEN ErrorPending(status) ELSE ErrorNotPending(status)
  /\ udma_channel_lock' = 0
  /\ UNCHANGED <<udma_xfer_fail_cnt, udma_xfer_succ_cnt, udma_xfer_len,
                 udma_is_initialized, udma_channel, udma_xfer_src,
                 udma_xfer_dst, hw_configured, hw_chunk, nsess, exact, irq>>

\* ------------------------------------------------------------ environment
CallDmaMemcpy ==
  \E len \in Lens, chan \in Chans, cb \in Callbacks :
    dma_memcpy(Bufs[chan].dst, Bufs[chan].src, len, chan, cb)

CallInit == \E chan \in Chans : init_dma_memcpy(chan)

CompletionInterrupt == \E c \in Chans, mode \in Modes : uDMAIntHandler(c, mode)

ErrorInterrupt == \E status \in {0, 1} : uDMAErrorHandler(status)

Next ==
  \/ CallDmaMemcpy
  \/ CallInit
  \/ CompletionInterrupt
  \/ ErrorInterrupt

Spec == Init /\ [][Next]_vars

\* The same operations with the counters wrapping at their bounds, so that
\* no bound ever keeps a handler from running, and with every chunk in
\* flight eventually raising its completion interrupt.
LiveInit == Reset /\ exact = FALSE /\ irq = NoIrq

LiveNext ==
  \/ CallDmaMemcpy
  \/ CompletionInterrupt
  \/ ErrorInterrupt

LiveSpec == LiveInit /\ [][LiveNext]_vars /\ WF_vars(CompletionInterrupt)

\* ------------------------------------------------------------ preemption
\* The handlers statement by statement.  The handler with the lower
\* interrupt priority runs one statement per step and keeps its position and
\* locals in irq; between two of its statements the handler with the higher
\* priority may run, from entry to exit.

\* the statement just executed by the handler in progress
StepEv(code, by, arm, armch) ==
  Ev(IF irq.h = "int" THEN "uDMAIntHandler" ELSE "uDMAErrorHandler", 0, code,
     by, arm, armch, irq.in, CurActive, udma_channel_lock)

\* history: the callback stored by session `by` is invoked with `code`
InvokedFor(h, by, code) ==
  [h EXCEPT ![by].ncb = Tally(@, 3), ![by].code = code]

\* ui32Status = ROM_uDMAErrorStatusGet(); if(ui32Status)
ErrEnter(status) ==
  /\ irq.h = "none"
  /\ irq' = [irq EXCEPT !.h = "err", !.in = status,
                        !.pc = IF status # 0 THEN "count" ELSE "unlock"]
  /\ ev' = Ev("uDMAErrorHandler", 0, NoCall, 0, NoChunk, 0, status,
              CurActive, udma_channel_lock)
  /\ UNCHANGED <<prog, hw, cb_owner, nsess, hist, exact>>

\* ui32Mode = ROM_uDMAChannelModeGet(udma_channel); if(ui32Mode == ...)
IntEnter(c, mode) ==
  /\ irq.h = "none"
  /\ hw_chunk[c] # Idle
  /\ hw_chunk' = [hw_chunk EXCEPT ![c] = Idle]
  /\ irq' = [irq EXCEPT !.h = "int", !.in = mode, !.pc = "count",
                        !.own = (hw_chunk[c] = nsess)]
  /\ ev' = Ev("uDMAIntHandler", 0, NoCall, 0, NoChunk, 0, mode,
              CurActive, udma_channel_lock)
  /\ UNCHANGED <<prog, hw_configured, cb_owner, nsess, hist, exact>>

\* ROM_uDMAErrorStatusClear(); udma_error_cnt++ /
\* udma_xfer_succ_cnt++ / udma_xfer_fail_cnt++
StepCount ==
  /\ irq.pc = "count"
  /\ udma_error_cnt' = IF irq.h = "err"
                         THEN Inc(udma_error_cnt, MaxFaults)
                         ELSE udma_error_cnt
  /\ udma_xfer_succ_cnt' = IF irq.h = "int" /\ irq.in = UDMA_MODE_STOP
                             THEN Inc(udma_xfer_succ_cnt, MaxCnt)
                             ELSE udma_xfer_succ_cnt
  /\ udma_xfer_fail_cnt' = IF irq.h = "int" /\ irq.in # UDMA_MODE_STOP
                             THEN Inc(udma_xfer_fail_cnt, MaxFaults)
                             ELSE udma_xfer_fail_cnt
  /\ irq' = [irq EXCEPT !.pc = "test"]
  /\ ev' = IF irq.h = "err" THEN Clears(StepEv(NoCall, 0, NoChunk, 0))
           ELSE StepEv(NoCall, 0, NoChunk, 0)
  /\ UNCHANGED <<udma_xfer_len, udma_channel_lock, udma_is_initialized,
                 udma_channel, udma_xfer_src, udma_xfer_dst,
                 udma_callback_ptr, hw, cb_owner, nsess, hist, exact>>

\* if (udma_callback_ptr) / if (udma_callback_ptr && (udma_xfer_len==0)):
\* the pointer tested stays in irq.fn
StepTest ==
  LET success == irq.h = "int" /\ irq.in = UDMA_MODE_STOP
      due == IF success
               THEN SuccessCallbackDue(udma_callback_ptr, udma_xfer_len)
               ELSE udma_callback_ptr # NULL
  IN
  /\ irq.pc = "test"
  /\ irq' = [irq EXCEPT !.fn = udma_callback_ptr, !.by = cb_owner,
                        !.pc = IF due THEN "call"
                               ELSE IF success THEN "rearm" ELSE "unlock"]
  /\ ev' = StepEv(NoCall, 0, NoChunk, 0)
  /\ UNCHANGED <<prog, hw, cb_owner, nsess, hist, exact>>

\* (*udma_callback_ptr)(code): udma_callback_ptr is not volatile, so the
\* call goes through the pointer the test loaded or through a fresh load
StepCall ==
  LET code == IF irq.h = "err" THEN 2
              ELSE IF irq.in = UDMA_MODE_STOP THEN 0 ELSE 1
  IN
  /\ irq.pc = "call"
  /\ \E reload \in BOOLEAN :
       LET fn == IF reload THEN udma_callback_ptr ELSE irq.fn
           by == IF reload THEN cb_owner ELSE irq.by
       IN IF fn = NULL
            THEN /\ ev' = StepEv(NullCall, 0, NoChunk, 0)
                 /\ UNCHANGED hist
            ELSE /\ ev' = StepEv(code, by, NoChunk, 0)
                 /\ hist' = InvokedFor(hist, by, code)
  /\ irq' = [irq EXCEPT !.pc = "clear"]
  /\ UNCHANGED <<prog, hw, cb_owner, nsess, exact>>

\* udma_callback_ptr = NULL
StepClear ==
  /\ irq.pc = "clear"
  /\ udma_callback_ptr' = NULL
  /\ cb_owner' = 0
  /\ irq' = [irq EXCEPT !.pc = "unlock"]
  /\ ev' = StepEv(NoCall, 0, NoChunk, 0)
  /\ UNCHANGED <<udma_error_cnt, udma_xfer_fail_cnt, udma_xfer_succ_cnt,
                 udma_xfer_len, udma_channel_lock, udma_is_initialized,
                 udma_channel, udma_xfer_src, udma_xfer_dst, hw, nsess,
                 hist, exact>>

\* the else branch of the success test: program and request the next chunk
StepRearm ==
  LET len == ChunkLen(udma_xfer_len)
      chunk == [len |-> len, src |-> udma_xfer_src, dst |-> udma_xfer_dst]
  IN
  /\ irq.pc = "rearm"
  /\ udma_xfer_len' = Sub32(udma_xfer_len, len)
  /\ hw_chunk' = Arm(hw_chunk, udma_channel, nsess)
  /\ udma_xfer_src' = PtrAdd(udma_xfer_src, len)
  /\ udma_xfer_dst' = PtrAdd(udma_xfer_dst, len)
  /\ hist' = [hist EXCEPT ![nsess].narms = Tally(@, MaxCnt + 1),
                          ![nsess].words = @ + len]
  /\ irq' = [irq EXCEPT !.pc = "unlock"]
  /\ ev' = StepEv(NoCall, 0, chunk, udma_channel)
  /\ UNCHANGED <<udma_error_cnt, udma_xfer_fail_cnt, udma_xfer_succ_cnt,
                 udma_channel_lock, udma_is_initialized, udma_channel,
                 udma_callback_ptr, hw_configured, cb_owner, nsess, exact>>

\* udma_channel_lock = 0; the handler returns
StepUnlock ==
  /\ irq.pc = "unlock"
  /\ udma_channel_lock' = 0
  /\ irq' = [NoIrq EXCEPT !.hi = irq.hi]
  /\ ev' = StepEv(NoCall, 0, NoChunk, 0)
  /\ UNCHANGED <<udma_error_cnt, udma_xfer_fail_cnt, udma_xfer_succ_cnt,
                 udma_xfer_len, udma_is_initialized, udma_channel,
                 udma_xfer_src, udma_xfer_dst, udma_callback_ptr, hw,
                 cb_owner, nsess, hist, exact>>

\* the next statement of the handler in progress
HandlerStep ==
  \/ StepCount
  \/ StepTest
  \/ StepCall
  \/ StepClear
  \/ StepRearm
  \/ StepUnlock

\* the handler with the lower priority is entered
LowEnter ==
  \/ irq.hi = "int" /\ \E status \in {0, 1} : ErrEnter(status)
  \/ irq.hi = "err" /\ \E c \in Chans, mode \in Modes : IntEnter(c, mode)

\* the handler with the higher priority runs from entry to exit, also
\* between two statements of the other handler
HighRun ==
  \/ irq.hi = "int" /\ CompletionInterrupt
  \/ irq.hi = "err" /\ ErrorInterrupt

\* dma_memcpy is called from thread mode, when no handler is in progress
ThreadCall == irq.h = "none" /\ CallDmaMemcpy

PreemptInit ==
  /\ Reset
  /\ exact = FALSE
  /\ \E hi \in {"int", "err"} : irq = [NoIrq EXCEPT !.hi = hi]

PreemptNext ==
  \/ ThreadCall
  \/ LowEnter
  \/ HandlerStep
  \/ HighRun

PreemptSpec == PreemptInit /\ [][PreemptNext]_vars

\* ------------------------------------------------------------ claims
CeilDiv(n, d) == (n + d - 1) \div d
Max(a, b) == IF a > b THEN a ELSE b
Min(a, b) == IF a < b THEN a ELSE b

\* a chunk armed for session s is in flight
InFlight(s) == \E c \in Chans : hw_chunk[c] = s

\* The current session was started with a callback and is undisturbed: since
\* its dma_memcpy returned 0 there was no dma_memcpy call and no error
\* interrupt, and every completion interrupt was for one of its own chunks
\* and read UDMA_MODE_STOP.
CleanCb == nsess > 0 /\ Cur.clean /\ Cur.cb # NULL

\* the session's callback is invoked in this step
CallsBack(s) == ev.code # NoCall /\ ev.owner = s

\* C1 as stated: in an undisturbed session of L words with a callback the
\* arm events number ceil(L / 1024); the callback is invoked exactly once,
\* with code 0, by the completion interrupt after the last armed chunk.
C1_Original ==
  CleanCb =>
    /\ Cur.narms <= CeilDiv(Cur.len, MAX_XFER_LEN)
    /\ Cur.ncb <= 1
    /\ (Cur.ncb = 1 => /\ Cur.code = 0
                       /\ Cur.narms = CeilDiv(Cur.len, MAX_XFER_LEN)
                       /\ Cur.words = Cur.len)
    /\ (CallsBack(nsess) => ev.op = "uDMAIntHandler" /\ ev.armch = 0)
    /\ (~InFlight(nsess) => Cur.ncb = 1)

\* C1 amended: the arm events number max(1, ceil(L / 1024)): a session of
\* 0 words still arms one (empty) chunk in dma_memcpy.  The rest as stated.
C1_ArmCount ==
  CleanCb =>
    /\ Cur.narms <= Max(1, CeilDiv(Cur.len, MAX_XFER_LEN))
    /\ Cur.ncb <= 1
    /\ (Cur.ncb = 1 => /\ Cur.code = 0
                       /\ Cur.narms = Max(1, CeilDiv(Cur.len, MAX_XFER_LEN))
                       /\ Cur.words = Cur.len)
    /\ (CallsBack(nsess) => ev.op = "uDMAIntHandler" /\ ev.armch = 0)
    /\ (~InFlight(nsess) => Cur.ncb = 1)

\* a 2500-word session has armed its three chunks and its callback has just
\* been invoked with 0
C1_Witness ==
  /\ CleanCb /\ Cur.len = 2500 /\ Cur.narms = 3 /\ Cur.ncb = 1
  /\ CallsBack(nsess) /\ ev.code = 0 /\ ~InFlight(nsess)

\* an arm event happened in this step
Armed == ev.armch # 0

\* C2 as stated: in an undisturbed session of L words started at (dst, src)
\* the k-th armed chunk (k = 0, 1, ...) has length min(1024, L - 1024*k),
\* source src + 1024*k and destination dst + 1024*k; the chunks are at most
\* 1024 words each and their lengths sum to at most L.
C2_Original ==
  (nsess > 0 /\ Cur.clean /\ Armed) =>
    LET k == Cur.narms - 1 IN
    /\ ev.arm.len = Min(MAX_XFER_LEN, Cur.len - MAX_XFER_LEN * k)
    /\ ev.arm.src = Cur.src + MAX_XFER_LEN * k
    /\ ev.arm.dst = Cur.dst + MAX_XFER_LEN * k
    /\ ev.arm.len <= MAX_XFER_LEN
    /\ Cur.words <= Cur.len

\* C3: a dma_memcpy call made while the lock is taken returns 1, arms
\* nothing and leaves the cursors, the remaining length, the callback, the
\* channel, the initialized flag and the lock unchanged.
C3_BusyNoEffect ==
  [][(udma_channel_lock # 0 /\ ev'.op = "dma_memcpy") =>
       /\ ev'.ret = 1
       /\ ev'.armch = 0
       /\ UNCHANGED <<udma_xfer_src, udma_xfer_dst, udma_xfer_len,
                      udma_callback_ptr, udma_channel, udma_is_initialized,
                      udma_channel_lock, hw_chunk>>]_vars

\* a call was refused while a session with words left to arm held the lock
C3_Witness ==
  /\ ev.op = "dma_memcpy" /\ ev.ret = 1 /\ ev.wasLock = 1
  /\ udma_xfer_len > 0 /\ udma_callback_ptr # NULL /\ udma_channel_lock = 1

\* C4 as stated: between a successful dma_memcpy and the terminal event of
\* its session (success callback, failure, handled controller error) every
\* further dma_memcpy call returns busy.
C4_Original ==
  (ev.op = "dma_memcpy" /\ ev.wasActive) => ev.ret = 1

\* no chunk is in flight on any channel
Quiescent == \A c \in Chans : hw_chunk[c] = Idle

\* C5 as stated: the callback of every session started with one is invoked
\* at most once, and exactly once by the time nothing is in flight any more.
C5_Original ==
  \A s \in 1..nsess :
    hist[s].cb # NULL =>
      /\ hist[s].ncb <= 1
      /\ (Quiescent => hist[s].ncb = 1)

\* C6 as stated: when a session's callback is invoked with code 0, all the
\* words of that session have been armed.
C6_Original ==
  (ev.code = 0) => hist[ev.owner].words = hist[ev.owner].len

\* the step was a terminal event
Terminal ==
  \/ ev.op = "uDMAIntHandler" /\ ev.code = 0
  \/ ev.op = "uDMAIntHandler" /\ ev.input # UDMA_MODE_STOP
  \/ ev.op = "uDMAErrorHandler" /\ ev.input # 0

\* C7: right after a terminal event the lock is free and no callback is
\* stored.
C7_TerminalReleases ==
  Terminal => udma_channel_lock = 0 /\ udma_callback_ptr = NULL

\* the failure branch has just invoked the callback of a session that held
\* the lock
C7_Witness ==
  /\ ev.op = "uDMAIntHandler" /\ ev.input # UDMA_MODE_STOP
  /\ ev.code = 1 /\ ev.wasLock = 1

\* C8 as stated: a controller error handled while a session with a callback
\* has words left invokes the callback with 2, adds 1 to udma_error_cnt and
\* frees the lock, and no chunk is armed from then until the next
\* successful dma_memcpy.
C8_Original ==
  /\ [][(ev'.op = "uDMAErrorHandler" /\ ev'.input # 0
           /\ udma_callback_ptr # NULL /\ udma_xfer_len # 0) =>
          /\ ev'.code = 2
          /\ udma_error_cnt' = udma_error_cnt + 1
          /\ udma_channel_lock' = 0]_vars
  /\ []((nsess > 0 /\ Cur.errored /\ ev.op = "uDMAIntHandler") => ~Armed)

\* C9: a completion interrupt that does not read UDMA_MODE_STOP adds 1 to
\* udma_xfer_fail_cnt, invokes the stored callback (if any) with 1 and
\* clears it, arms nothing, leaves the remaining length, the cursors and
\* udma_xfer_succ_cnt unchanged and frees the lock.
C9_FailBranch ==
  [][(ev'.op = "uDMAIntHandler" /\ ev'.input # UDMA_MODE_STOP) =>
       /\ udma_xfer_fail_cnt' = udma_xfer_fail_cnt + 1
       /\ ev'.code = (IF udma_callback_ptr # NULL THEN 1 ELSE NoCall)
       /\ udma_callback_ptr' = NULL
       /\ ev'.armch = 0
       /\ \A c \in Chans : hw_chunk'[c] \in {hw_chunk[c], Idle}
       /\ UNCHANGED <<udma_xfer_len, udma_xfer_src, udma_xfer_dst,
                      udma_xfer_succ_cnt>>
       /\ udma_channel_lock' = 0]_vars

\* the failure branch ran in a session that still had words to arm
C9_Witness ==
  /\ ev.op = "uDMAIntHandler" /\ ev.input # UDMA_MODE_STOP
  /\ udma_xfer_len > 0 /\ udma_xfer_fail_cnt = 1 /\ ev.code = 1

\* C10 as stated: with every chunk in flight eventually raising its
\* completion interrupt, a started session - with or without a callback -
\* eventually reaches a state with no chunk in flight and the lock free.
C10_Original ==
  [](nsess > 0 => <>(Quiescent /\ udma_channel_lock = 0))

\* C11: dma_memcpy returns 0 if its compare-and-swap found the lock 0 and 1
\* otherwise, whatever its arguments; a call returning 0 arms exactly one
\* chunk, on the channel it was given.
C11_ReturnValue ==
  [][(ev'.op = "dma_memcpy") =>
       /\ ev'.ret = (IF udma_channel_lock = 0 THEN 0 ELSE 1)
       /\ (ev'.ret = 0 =>
             /\ ev'.armch \in Chans
             /\ ev'.armch = udma_channel'
             /\ hw_chunk' = [hw_chunk EXCEPT ![ev'.armch] = nsess']
             /\ hist'[nsess'].narms = 1)]_vars

\* a call with len = 0 and cb = NULL found the lock free, returned 0 and
\* armed one (empty) chunk
C11_Witness ==
  /\ ev.op = "dma_memcpy" /\ ev.ret = 0 /\ ev.wasLock = 0
  /\ Cur.len = 0 /\ Cur.cb = NULL
  /\ ev.armch = Cur.chan /\ hw_chunk[ev.armch] = nsess

\* C12: the three counters never decrease: dma_memcpy and init_dma_memcpy
\* leave them unchanged; uDMAIntHandler adds 1 to udma_xfer_succ_cnt if the
\* mode is UDMA_MODE_STOP and to udma_xfer_fail_cnt otherwise and leaves the
\* other two unchanged; uDMAErrorHandler adds 1 to udma_error_cnt iff the
\* error status is non-zero and leaves the other two unchanged.
C12_Counters ==
  [][/\ udma_error_cnt' >= udma_error_cnt
     /\ udma_xfer_fail_cnt' >= udma_xfer_fail_cnt
     /\ udma_xfer_succ_cnt' >= udma_xfer_succ_cnt
     /\ (ev'.op \in {"dma_memcpy", "init_dma_memcpy"} =>
           UNCHANGED <<udma_error_cnt, udma_xfer_fail_cnt,
                       udma_xfer_succ_cnt>>)
     /\ (ev'.op = "uDMAIntHandler" =>
           /\ UNCHANGED udma_error_cnt
           /\ IF ev'.input = UDMA_MODE_STOP
                THEN /\ udma_xfer_succ_cnt' = udma_xfer_succ_cnt + 1
                     /\ UNCHANGED udma_xfer_fail_cnt
                ELSE /\ udma_xfer_fail_cnt' = udma_xfer_fail_cnt + 1
                     /\ UNCHANGED udma_xfer_succ_cnt)
     /\ (ev'.op = "uDMAErrorHandler" =>
           /\ udma_error_cnt' =
                udma_error_cnt + (IF ev'.input # 0 THEN 1 ELSE 0)
           /\ UNCHANGED <<udma_xfer_fail_cnt, udma_xfer_succ_cnt>>)]_vars

\* each counter has been incremented, the error counter by the step just
\* taken
C12_Witness ==
  /\ ev.op = "uDMAErrorHandler" /\ ev.input # 0
  /\ udma_error_cnt = 1 /\ udma_xfer_fail_cnt = 1 /\ udma_xfer_succ_cnt >= 2

\* C13: init_dma_memcpy(chan) returns 0 and sets udma_is_initialized to 1;
\* it changes neither the lock, the cursors, the remaining length, the
\* channel, the callback, the counters nor the chunks in flight; and called
\* again with the same channel right after itself it changes nothing at all.
C13_InitIdempotent ==
  [][(ev'.op = "init_dma_memcpy") =>
       /\ ev'.ret = 0
       /\ udma_is_initialized' = 1
       /\ ev'.input \in hw_configured'
       /\ UNCHANGED <<udma_channel_lock, udma_xfer_src, udma_xfer_dst,
                      udma_xfer_len, udma_channel, udma_callback_ptr,
                      udma_error_cnt, udma_xfer_fail_cnt,
                      udma_xfer_succ_cnt, hw_chunk>>
       /\ ((ev.op = "init_dma_memcpy" /\ ev.input = ev'.input) =>
             UNCHANGED <<prog, hw>>)]_vars

\* init_dma_memcpy has just been called in the middle of a session, after
\* both channels were configured
C13_Witness ==
  /\ ev.op = "init_dma_memcpy" /\ ev.ret = 0
  /\ hw_configured = Chans /\ udma_is_initialized = 1
  /\ udma_channel_lock = 1 /\ udma_xfer_len > 0 /\ udma_callback_ptr # NULL

C15_NoErrorPending ==
  [][(ev'.op = "uDMAErrorHandler" /\ ev'.input = 0) =>
       /\ ev'.code = NoCall
       /\ ~ev'.cleared
       /\ UNCHANGED <<udma_error_cnt, udma_callback_ptr, udma_xfer_len,
                      udma_xfer_src, udma_xfer_dst, udma_channel>>
       /\ ev'.armch = 0
       /\ UNCHANGED hw_chunk
       /\ udma_channel_lock' = 0]_vars

\* the error handler has just run with status 0 while a session with a
\* callback and words left to arm held the lock
C15_Witness ==
  /\ ev.op = "uDMAErrorHandler" /\ ev.input = 0 /\ ev.wasLock = 1
  /\ udma_channel_lock = 0 /\ udma_callback_ptr # NULL /\ udma_xfer_len > 0
  /\ InFlight(nsess)

\* C16: udma_is_initialized is 0 initially, is 1 after every successful
\* dma_memcpy and every init_dma_memcpy and is never reset to 0; dma_memcpy
\* configures a channel only in a call that took the lock and found the
\* flag 0 - hence at most once, the flag being 1 from then on - and a busy
\* call never configures.
C16_LazyInitOnce ==
  /\ (nsess = 0 /\ ev.op # "init_dma_memcpy" => udma_is_initialized = 0)
  /\ [][/\ udma_is_initialized' >= udma_is_initialized
        /\ udma_is_initialized' \in {0, 1}
        /\ ((ev'.op = "dma_memcpy" /\ ev'.ret = 0) => udma_is_initialized' = 1)
        /\ (ev'.op = "init_dma_memcpy" => udma_is_initialized' = 1)
        /\ ((ev'.op = "dma_memcpy" /\ ev'.ret = 1) =>
              ~ev'.configured /\ UNCHANGED hw_configured)
        /\ ((ev'.op = "dma_memcpy" /\ ev'.ret = 0) =>
              /\ ev'.configured = (udma_is_initialized = 0)
              /\ (~ev'.configured => UNCHANGED hw_configured)
              /\ (ev'.configured => udma_channel_lock = 0))]_vars

\* the second successful dma_memcpy has just returned without configuring
\* anything
C16_Witness ==
  /\ ev.op = "dma_memcpy" /\ ev.ret = 0 /\ nsess = 2
  /\ ~ev.configured /\ udma_is_initialized = 1

\* C17 as stated: a chunk is armed only on a channel that was configured
\* before.
C17_Original ==
  Armed => ev.armch \in hw_configured

\* C18 as stated: when the two handlers may preempt one another between
\* statements, no session's callback is invoked more than once and no
\* handler calls through a NULL udma_callback_ptr.
C18_Original ==
  /\ \A s \in 1..nsess : hist[s].ncb <= 1
  /\ ev.code # NullCall

C20_CursorsAgree ==
  nsess > 0 =>
    /\ udma_xfer_src - Cur.src = Cur.len - udma_xfer_len
    /\ udma_xfer_dst - Cur.dst = Cur.len - udma_xfer_len

\* the handler has just armed the last chunk of a 2500-word session, the
\* error handler having run in between
C20_Witness ==
  /\ nsess > 0 /\ Cur.len = 2500 /\ udma_xfer_len = 0
  /\ ev.op = "uDMAIntHandler" /\ Armed /\ ev.arm.len = 452
  /\ udma_xfer_src = Cur.src + 2500 /\ udma_error_cnt = 1

====
